---- MODULE Spec2Model ----
(***************************************************************************)
(* Model of the gorm-snowflake INSERT / MERGE generation engine and of    *)
(* the default-value recovery step of Create.                              *)
(*                                                                         *)
(* Text representation.  Generated SQL is a sequence of text pieces.  An   *)
(* identifier, the EXCLUDED pseudo-table token and every punctuation byte  *)
(* are written character by character (one-character strings); an SQL      *)
(* keyword phrase that the code emits with a single WriteString call       *)
(* ("MERGE INTO ", " UNION SELECT ", ...) is one piece.  Identifiers are    *)
(* sequences of one-character strings, so lower-casing, prefix tests and   *)
(* splitting on '.' are computed as the code computes them.                *)
(***************************************************************************)
EXTENDS Integers, Sequences, FiniteSets, TLC

VARIABLES
    dialector,      \* db.Dialector: the Snowflake dialector and its Config
    schema,         \* db.Statement.Schema
    stmtTable,      \* db.Statement.Table
    values,         \* callbacks.ConvertToCreateValues(db.Statement): the Row-Set
    onConflict,     \* db.Statement.Clauses["ON CONFLICT"]
    DryRun,         \* db.DryRun
    reflectKind,    \* db.Statement.ReflectValue.Kind()
    objects,        \* the input objects: per object, its default-tracked field values
    SQL,            \* db.Statement.SQL
    Vars,           \* db.Statement.Vars
    Error,          \* db.Error, as the list of errors added so far
    RowsAffected,   \* db.RowsAffected
    pc,             \* position of the Create invocation
    rows,           \* the *sql.Rows cursor of the recovery query: rows not yet fetched
    reflectIndex,   \* index of the next input object in the slice recovery loop
    fetched,        \* number of rows fetched from the cursor by rows.Next()
    prepared,       \* the DoUpdates list MergeCreate got from prepareOnConflictForMerge
    execCalls,      \* calls of ConnPool.ExecContext seen by the connection
    queryCalls,     \* calls of ConnPool.QueryContext seen by the connection
    scanLog,        \* calls of rows.Scan: which fetched row onto which object
    inserted,       \* the objects the primary statement really inserted
    quoteCalls,     \* direct calls of Dialector.QuoteTo: the input and the text written
    made,           \* how the caller obtained the dialector
    translateCalls, \* direct calls of Dialector.Translate: the error and the result
    limitCalls,     \* calls of the LIMIT clause builder: the statement and the text written
    init            \* the statement and objects as they were when Create was invoked

vars == <<dialector, schema, stmtTable, values, onConflict, DryRun, reflectKind,
          objects, SQL, Vars, Error, RowsAffected, pc, rows, reflectIndex,
          fetched, prepared, execCalls, queryCalls, scanLog, inserted, quoteCalls,
          made, translateCalls, limitCalls, init>>

inputs == <<dialector, schema, stmtTable, values, onConflict, DryRun, reflectKind, init,
            quoteCalls, made, translateCalls, limitCalls>>

-----------------------------------------------------------------------------
(* Bounds *)

MaxCols == 2        \* columns of a Row-Set
MaxRows == 2        \* rows of a Row-Set
MaxUpdates == 2     \* Update Assignments of a Conflict Specification
MaxObjs == 2        \* input objects of a collection insert
MaxCalls == 2       \* direct calls of QuoteTo on one dialector

-----------------------------------------------------------------------------
(* strings *)

UpperChars == <<"A","B","C","D","E","F","G","H","I","J","K","L","M",
                "N","O","P","Q","R","S","T","U","V","W","X","Y","Z">>
LowerChars == <<"a","b","c","d","e","f","g","h","i","j","k","l","m",
                "n","o","p","q","r","s","t","u","v","w","x","y","z">>
DigitChars == <<"0","1","2","3","4","5","6","7","8","9">>

Range(f) == {f[i] : i \in DOMAIN f}

\* unicode.ToLower on one character
ToLowerChar(c) ==
    IF c \in Range(UpperChars)
    THEN LowerChars[CHOOSE i \in DOMAIN UpperChars : UpperChars[i] = c]
    ELSE c

\* strings.ToLower
ToLower(str) == [i \in 1..Len(str) |-> ToLowerChar(str[i])]

\* strings.HasPrefix
HasPrefix(str, prefix) ==
    /\ Len(str) >= Len(prefix)
    /\ SubSeq(str, 1, Len(prefix)) = prefix

\* strings.Contains for a one-character separator
Contains(str, c) == \E i \in 1..Len(str) : str[i] = c

\* strings.Split for a one-character separator
RECURSIVE Split(_, _)
Split(str, c) ==
    IF ~Contains(str, c) THEN <<str>>
    ELSE LET i == CHOOSE k \in 1..Len(str) :
                     /\ str[k] = c
                     /\ \A j \in 1..(k - 1) : str[j] # c
         IN <<SubSeq(str, 1, i - 1)>> \o Split(SubSeq(str, i + 1, Len(str)), c)

Min(S) == CHOOSE x \in S : \A y \in S : x <= y

-----------------------------------------------------------------------------
(* Dialector.Translate (snowflake.go) *)

\* strings.Contains
ContainsString(str, substr) ==
    \E i \in 1..(Len(str) - Len(substr) + 1) :
        SubSeq(str, i, i + Len(substr) - 1) = substr

sDuplicate == <<"d","u","p","l","i","c","a","t","e">>
sUnique == <<"u","n","i","q","u","e">>
sForeignKey == <<"f","o","r","e","i","g","n"," ","k","e","y">>
sCheckConstraint == <<"c","h","e","c","k"," ","c","o","n","s","t","r","a","i","n","t">>
sInvalid == <<"i","n","v","a","l","i","d">>
sValue == <<"v","a","l","u","e">>
sData == <<"d","a","t","a">>

ErrDuplicatedKey == [kind |-> "gorm", name |-> "ErrDuplicatedKey"]
ErrForeignKeyViolated == [kind |-> "gorm", name |-> "ErrForeignKeyViolated"]
ErrCheckConstraintViolated == [kind |-> "gorm", name |-> "ErrCheckConstraintViolated"]
ErrInvalidData == [kind |-> "gorm", name |-> "ErrInvalidData"]
NilError == [kind |-> "nil"]

\* errors.As(err, &sfErr): the first *gosnowflake.SnowflakeError of the chain
RECURSIVE AsSnowflakeError(_)
AsSnowflakeError(err) ==
    CASE err.kind = "snowflake" -> <<err>>
      [] err.kind = "wrapped" -> AsSnowflakeError(err.inner)
      [] OTHER -> <<>>

TranslateForeignKeyFirst(err) ==
    IF err = NilError THEN NilError
    ELSE LET found == AsSnowflakeError(err)
             msg == ToLower(found[1].Message)
         IN IF found = <<>> THEN err
            ELSE IF ContainsString(msg, sForeignKey) THEN ErrForeignKeyViolated
            ELSE IF ContainsString(msg, sDuplicate) \/ ContainsString(msg, sUnique)
                 THEN ErrDuplicatedKey
            ELSE IF ContainsString(msg, sCheckConstraint) THEN ErrCheckConstraintViolated
            ELSE IF /\ ContainsString(msg, sInvalid)
                    /\ (ContainsString(msg, sValue) \/ ContainsString(msg, sData))
                 THEN ErrInvalidData
            ELSE err

Translate(err) ==
    IF err = NilError THEN NilError
    ELSE LET found == AsSnowflakeError(err)
             msg == ToLower(found[1].Message)
         IN IF found = <<>> THEN err
            ELSE IF ContainsString(msg, sDuplicate) \/ ContainsString(msg, sUnique)
                 THEN ErrDuplicatedKey
            ELSE IF ContainsString(msg, sForeignKey) THEN ErrForeignKeyViolated
            ELSE IF ContainsString(msg, sCheckConstraint) THEN ErrCheckConstraintViolated
            ELSE IF /\ ContainsString(msg, sInvalid)
                    /\ (ContainsString(msg, sValue) \/ ContainsString(msg, sData))
                 THEN ErrInvalidData
            ELSE err

-----------------------------------------------------------------------------
(* Dialector.QuoteTo and Dialector.BindVarTo (snowflake.go) *)

\* the character class [a-zA-Z0-9|_] of functionRegex
IsNameChar(c) ==
    c \in Range(UpperChars) \cup Range(LowerChars) \cup Range(DigitChars) \cup {"|", "_"}

\* positions of an opening parenthesis at which functionRegex can match:
\* a name character before it, and a closing parenthesis after at least one
\* more character
FuncOpens(str) ==
    {o \in 2..Len(str) :
        /\ str[o] = "("
        /\ IsNameChar(str[o - 1])
        /\ \E p \in (o + 2)..Len(str) : str[p] = ")"}

\* functionRegex.MatchString
IsFunction(str) == FuncOpens(str) # {}

\* functionRegex.FindStringSubmatch: <<matches[1], matches[2]>> of the
\* leftmost match; the name group is greedy, the argument group is lazy
FindStringSubmatch(str) ==
    LET o == Min(FuncOpens(str))
        a == Min({s \in 1..(o - 1) : \A j \in s..(o - 1) : IsNameChar(str[j])})
        p == Min({q \in (o + 2)..Len(str) : str[q] = ")"})
    IN <<SubSeq(str, a, o - 1), SubSeq(str, o + 1, p - 1)>>

\* the loop over the dot-separated parts, QuoteTo lines 155-161
RECURSIVE QuoteParts(_, _)
QuoteParts(parts, idx) ==
    IF idx > Len(parts) THEN <<>>
    ELSE (IF idx > 1 THEN <<".", "\"">> ELSE <<>>)
         \o parts[idx] \o <<"\"">>
         \o QuoteParts(parts, idx + 1)

\* QuoteTo that keeps the case of the input when quoting is disabled
QuoteToKeepCase(d, str) ==
    IF d.QuoteFields
    THEN LET isFunction == IsFunction(str)
             quoteString == IF isFunction THEN FindStringSubmatch(str)[2] ELSE str
         IN (IF isFunction THEN FindStringSubmatch(str)[1] \o <<"(">> ELSE <<>>)
            \o <<"\"">>
            \o (IF Contains(quoteString, ".")
                THEN QuoteParts(Split(quoteString, "."), 1)
                ELSE quoteString \o <<"\"">>)
            \o (IF isFunction THEN <<")">> ELSE <<>>)
    ELSE str

\* QuoteTo that writes the bare pseudo-table token without quotes
QuoteToExcludedBare(d, str) ==
    IF d.QuoteFields
    THEN IF ToLower(str) = <<"e","x","c","l","u","d","e","d">>
         THEN <<"E","X","C","L","U","D","E","D">>
         ELSE LET isFunction == IsFunction(str)
                  quoteString == IF isFunction THEN FindStringSubmatch(str)[2] ELSE str
              IN (IF isFunction THEN FindStringSubmatch(str)[1] \o <<"(">> ELSE <<>>)
                 \o <<"\"">>
                 \o (IF Contains(quoteString, ".")
                     THEN QuoteParts(Split(quoteString, "."), 1)
                     ELSE quoteString \o <<"\"">>)
                 \o (IF isFunction THEN <<")">> ELSE <<>>)
    ELSE ToLower(str)

\* Dialector.QuoteTo: the text written for str
QuoteTo(d, str) ==
    IF d.QuoteFields
    THEN LET isFunction == IsFunction(str)
             quoteString == IF isFunction THEN FindStringSubmatch(str)[2] ELSE str
         IN (IF isFunction THEN FindStringSubmatch(str)[1] \o <<"(">> ELSE <<>>)
            \o <<"\"">>
            \o (IF Contains(quoteString, ".")
                THEN QuoteParts(Split(quoteString, "."), 1)
                ELSE quoteString \o <<"\"">>)
            \o (IF isFunction THEN <<")">> ELSE <<>>)
    ELSE ToLower(str)

\* Dialector.BindVarTo: the placeholder written for one bound value
BindVarTo == <<"?">>

-----------------------------------------------------------------------------
(* The statement accumulator: st = [SQL |-> text, Vars |-> parameters] *)

\* Statement.WriteString of a keyword phrase, as one piece
WriteString(st, phrase) == [st EXCEPT !.SQL = @ \o <<phrase>>]

\* Statement.WriteByte, and WriteString of character text
WriteText(st, text) == [st EXCEPT !.SQL = @ \o text]

\* Statement.WriteQuoted of a name (a string or a clause.Column{Name})
WriteQuoted(st, d, name) ==
    [st EXCEPT !.SQL = @ \o (IF d.isSnowflake THEN QuoteTo(d, name) ELSE <<>>)]

\* assignment / row values: a bound literal, a column reference, a raw expression
Lit(n) == [kind |-> "lit", val |-> n]
Col(name) == [kind |-> "col", val |-> name]
Expr(sql) == [kind |-> "expr", val |-> sql]

\* Statement.AddVar of one value: a bound value is appended to Vars and gets
\* the dialector's placeholder, a clause.Column is quoted, a clause.Expr is
\* written as it is
AddVar(st, d, v) ==
    CASE v.kind = "lit" -> [SQL |-> st.SQL \o (IF d.isSnowflake THEN BindVarTo ELSE <<>>),
                            Vars |-> Append(st.Vars, v.val)]
      [] v.kind = "col" -> WriteQuoted(st, d, v.val)
      [] v.kind = "expr" -> WriteText(st, v.val)

\* Statement.AddVar(stmt, value...) of one Row-Set row: comma-joined
RECURSIVE AddVarRow(_, _, _, _)
AddVarRow(st, d, row, i) ==
    IF i > Len(row) THEN st
    ELSE AddVarRow(AddVar(IF i > 1 THEN WriteText(st, <<",">>) ELSE st, d, Lit(row[i])),
                   d, row, i + 1)

\* the comma-joined quoted column list, lines 648-653 and 699-704
RECURSIVE WriteColumns(_, _, _, _)
WriteColumns(st, d, columns, idx) ==
    IF idx > Len(columns) THEN st
    ELSE WriteColumns(WriteQuoted(IF idx > 1 THEN WriteText(st, <<",">>) ELSE st,
                                  d, columns[idx]),
                      d, columns, idx + 1)

-----------------------------------------------------------------------------
(* buildUnionSelectInsert and buildValuesInsert *)

\* the pre-allocation without the copy of the parameters already there
GrowVarsNoCopy(st, totalVars) == [st EXCEPT !.Vars = <<>>]

\* the pre-allocation of Statement.Vars, lines 631-638 and 682-689: a larger
\* slice that holds a copy of the parameters already there
GrowVars(st, totalVars) == [st EXCEPT !.Vars = SubSeq(st.Vars, 1, Len(st.Vars))]

\* the loop over the rows with the separator written before every row
RECURSIVE UnionSelectRowsLeading(_, _, _, _)
UnionSelectRowsLeading(st, d, rowValues, idx) ==
    IF idx > Len(rowValues) THEN st
    ELSE UnionSelectRowsLeading(
             AddVarRow(WriteString(st, " UNION SELECT "), d, rowValues[idx], 1),
             d, rowValues, idx + 1)

\* the loop over the rows of buildUnionSelectInsert, lines 659-671
RECURSIVE UnionSelectRows(_, _, _, _)
UnionSelectRows(st, d, rowValues, idx) ==
    IF idx > Len(rowValues) THEN st
    ELSE UnionSelectRows(
             AddVarRow(IF idx > 1 THEN WriteString(st, " UNION SELECT ") ELSE st,
                       d, rowValues[idx], 1),
             d, rowValues, idx + 1)

buildUnionSelectInsert(st, d, vals) ==
    LET s0 == GrowVars(st, Len(vals.Values) * Len(vals.Columns))
        s1 == WriteColumns(WriteText(s0, <<"(">>), d, vals.Columns, 1)
        s2 == WriteString(s1, ") SELECT ")
        s3 == UnionSelectRows(s2, d, vals.Values, 1)
    IN WriteText(s3, <<";">>)

\* the tuples written without the comma between two rows
RECURSIVE ValueTuplesUnseparated(_, _, _, _)
ValueTuplesUnseparated(st, d, rowValues, idx) ==
    IF idx > Len(rowValues) THEN st
    ELSE ValueTuplesUnseparated(
             WriteText(AddVarRow(WriteText(st, <<"(">>), d, rowValues[idx], 1), <<")">>),
             d, rowValues, idx + 1)

\* the parenthesised tuples, one per row: lines 709-717 of buildValuesInsert
\* and lines 480-488 of MergeCreate
RECURSIVE ValueTuples(_, _, _, _)
ValueTuples(st, d, rowValues, idx) ==
    IF idx > Len(rowValues) THEN st
    ELSE ValueTuples(
             WriteText(AddVarRow(WriteText(IF idx > 1 THEN WriteText(st, <<",">>) ELSE st,
                                           <<"(">>),
                                 d, rowValues[idx], 1),
                       <<")">>),
             d, rowValues, idx + 1)

buildValuesInsert(st, d, vals) ==
    LET s0 == GrowVars(st, Len(vals.Values) * Len(vals.Columns))
        s1 == WriteColumns(WriteText(s0, <<"(">>), d, vals.Columns, 1)
        s2 == WriteString(WriteText(s1, <<")">>), " VALUES ")
        s3 == ValueTuples(s2, d, vals.Values, 1)
    IN WriteText(s3, <<";">>)

\* shouldUseUnionSelect
shouldUseUnionSelect(d) ==
    IF d.isSnowflake /\ d.hasConfig THEN d.UseUnionSelect ELSE TRUE

-----------------------------------------------------------------------------
(* prepareOnConflictForMerge *)

\* the text `EXCLUDED.` of the raw expressions built by fmt.Sprintf
ExcludedDot == <<"E","X","C","L","U","D","E","D",".">>

\* the argument "excluded." of strings.HasPrefix and of len()
excludedDot == <<"e","x","c","l","u","d","e","d",".">>

\* fmt.Sprintf(`EXCLUDED."%s"`, name) or fmt.Sprintf(`EXCLUDED.%s`, name)
ExcludedExpr(shouldQuote, name) ==
    IF shouldQuote
    THEN Expr(ExcludedDot \o <<"\"">> \o name \o <<"\"">>)
    ELSE Expr(ExcludedDot \o name)

\* the loop body with a case-sensitive test of the prefix
PrepareAssignmentCaseSensitive(shouldQuote, assignment) ==
    IF assignment.Value.kind = "col"
    THEN LET colName == assignment.Value.val
         IN IF HasPrefix(colName, excludedDot)
            THEN [assignment EXCEPT !.Value =
                     ExcludedExpr(shouldQuote,
                                  SubSeq(colName, Len(excludedDot) + 1, Len(colName)))]
            ELSE [assignment EXCEPT !.Value = ExcludedExpr(shouldQuote, colName)]
    ELSE assignment

\* the loop body without the type test: every value is taken for a column
PrepareAssignmentAllValues(shouldQuote, assignment) ==
    LET colName == assignment.Value.val
    IN IF assignment.Value.kind = "lit"
       THEN [assignment EXCEPT !.Value = ExcludedExpr(shouldQuote, <<"?">>)]
       ELSE IF HasPrefix(ToLower(colName), excludedDot)
            THEN [assignment EXCEPT !.Value =
                     ExcludedExpr(shouldQuote,
                                  SubSeq(colName, Len(excludedDot) + 1, Len(colName)))]
            ELSE [assignment EXCEPT !.Value = ExcludedExpr(shouldQuote, colName)]

\* the loop body that leaves a reference to the bare token as it is
PrepareAssignmentBareTokenKept(shouldQuote, assignment) ==
    IF assignment.Value.kind = "col"
    THEN LET colName == assignment.Value.val
         IN IF ToLower(colName) = <<"e","x","c","l","u","d","e","d">>
            THEN assignment
            ELSE IF HasPrefix(ToLower(colName), excludedDot)
                 THEN [assignment EXCEPT !.Value =
                          ExcludedExpr(shouldQuote,
                                       SubSeq(colName, Len(excludedDot) + 1, Len(colName)))]
                 ELSE [assignment EXCEPT !.Value = ExcludedExpr(shouldQuote, colName)]
    ELSE assignment

\* the loop body with the reference left a clause.Column
PrepareAssignmentAsColumn(shouldQuote, assignment) ==
    IF assignment.Value.kind = "col"
    THEN LET colName == assignment.Value.val
         IN IF HasPrefix(ToLower(colName), excludedDot)
            THEN [assignment EXCEPT !.Value =
                     Col(ExcludedExpr(shouldQuote,
                                      SubSeq(colName, Len(excludedDot) + 1, Len(colName))).val)]
            ELSE [assignment EXCEPT !.Value = Col(ExcludedExpr(shouldQuote, colName).val)]
    ELSE assignment

\* the body of the loop over DoUpdates, lines 567-606
PrepareAssignment(shouldQuote, assignment) ==
    IF assignment.Value.kind = "col"
    THEN LET colName == assignment.Value.val
         IN IF HasPrefix(ToLower(colName), excludedDot)
            THEN [assignment EXCEPT !.Value =
                     ExcludedExpr(shouldQuote,
                                  SubSeq(colName, Len(excludedDot) + 1, Len(colName)))]
            ELSE [assignment EXCEPT !.Value = ExcludedExpr(shouldQuote, colName)]
    ELSE assignment

prepareOnConflictForMerge(d, DoUpdates) ==
    IF Len(DoUpdates) = 0 THEN DoUpdates
    ELSE LET shouldQuote == IF d.isSnowflake /\ d.hasConfig THEN d.QuoteFields ELSE FALSE
         IN [i \in 1..Len(DoUpdates) |-> PrepareAssignment(shouldQuote, DoUpdates[i])]

-----------------------------------------------------------------------------
(* the LIMIT clause builder of Dialector.ClauseBuilders (snowflake.go) *)

\* strconv.Itoa
RECURSIVE Digits(_)
Digits(n) ==
    IF n < 10 THEN <<DigitChars[n + 1]>>
    ELSE Digits(n \div 10) \o <<DigitChars[(n % 10) + 1]>>

Itoa(n) == IF n < 0 THEN <<"-">> \o Digits(0 - n) ELSE Digits(n)

\* a *int that is nil, and one that points to n
NilInt == [set |-> FALSE, n |-> 0]
IntPtr(n) == [set |-> TRUE, n |-> n]

\* the builder function registered under "LIMIT": st is the statement's text,
\* hasOrderBy says whether stmt.Clauses has an "ORDER BY" entry
LimitBuilder(st, d, sch, hasOrderBy, limit) ==
    LET s1 == IF ~hasOrderBy
              THEN IF sch.PrioritizedPrimaryField.present
                   THEN WriteText(WriteQuoted(WriteString(st, "ORDER BY "), d,
                                              sch.PrioritizedPrimaryField.DBName),
                                  <<" ">>)
                   ELSE WriteString(st, "ORDER BY (SELECT NULL) ")
              ELSE st
        s2 == IF limit.Offset > 0
              THEN WriteString(WriteText(WriteString(s1, "OFFSET "), Itoa(limit.Offset)),
                               " ROWS")
              ELSE s1
    IN IF limit.Limit.set /\ limit.Limit.n >= 0
       THEN LET s3 == IF limit.Offset = 0 THEN WriteString(s2, "OFFSET 0 ROW") ELSE s2
            IN WriteString(WriteText(WriteString(s3, " FETCH NEXT "), Itoa(limit.Limit.n)),
                           " ROWS ONLY")
       ELSE s2

-----------------------------------------------------------------------------
(* MergeCreate *)

\* clause.Set.Build, called at line 513: column=value, comma-joined
RECURSIVE SetBuild(_, _, _, _)
SetBuild(st, d, set, idx) ==
    IF idx > Len(set) THEN st
    ELSE SetBuild(
             AddVar(WriteText(WriteQuoted(IF idx > 1 THEN WriteText(st, <<",">>) ELSE st,
                                          d, set[idx].Column),
                              <<"=">>),
                    d, set[idx].Value),
             d, set, idx + 1)

\* the ON predicate with its equalities joined like a list
RECURSIVE MergeOnCommaJoined(_, _, _, _, _)
MergeOnCommaJoined(st, d, table, primaryFields, i) ==
    IF i > Len(primaryFields) THEN st
    ELSE LET s0 == IF i > 1 THEN WriteText(st, <<",">>) ELSE st
             s1 == WriteText(WriteQuoted(s0, d, table), <<".">>)
             s2 == WriteString(WriteQuoted(s1, d, primaryFields[i]), " = EXCLUDED.")
         IN MergeOnCommaJoined(WriteQuoted(s2, d, primaryFields[i]), d, table,
                               primaryFields, i + 1)

\* the ON predicate, lines 500-509
RECURSIVE MergeOn(_, _, _, _, _)
MergeOn(st, d, table, primaryFields, i) ==
    IF i > Len(primaryFields) THEN st
    ELSE LET s0 == IF i > 1 THEN WriteString(st, " AND ") ELSE st
             s1 == WriteText(WriteQuoted(s0, d, table), <<".">>)
             s2 == WriteString(WriteQuoted(s1, d, primaryFields[i]), " = EXCLUDED.")
         IN MergeOn(WriteQuoted(s2, d, primaryFields[i]), d, table, primaryFields, i + 1)

\* the test without the exclusion of the identity column
InsertsEveryColumn(sch, column) == TRUE

\* the test of lines 522 and 535: the column goes into the INSERT branch
InsertsColumn(sch, column) ==
    \/ ~sch.PrioritizedPrimaryField.present
    \/ ~sch.PrioritizedPrimaryField.AutoIncrement
    \/ sch.PrioritizedPrimaryField.DBName # column

\* the column list of the INSERT branch, lines 520-529
RECURSIVE MergeInsertColumns(_, _, _, _, _, _)
MergeInsertColumns(st, d, sch, columns, idx, written) ==
    IF idx > Len(columns) THEN st
    ELSE IF InsertsColumn(sch, columns[idx])
         THEN MergeInsertColumns(
                  WriteQuoted(IF written THEN WriteText(st, <<",">>) ELSE st, d, columns[idx]),
                  d, sch, columns, idx + 1, TRUE)
         ELSE MergeInsertColumns(st, d, sch, columns, idx + 1, written)

\* the value list of the INSERT branch without the test of the identity column
RECURSIVE MergeInsertValuesAll(_, _, _, _, _, _)
MergeInsertValuesAll(st, d, sch, columns, idx, written) ==
    IF idx > Len(columns) THEN st
    ELSE MergeInsertValuesAll(
             WriteQuoted(WriteString(IF written THEN WriteText(st, <<",">>) ELSE st,
                                     "EXCLUDED."),
                         d, columns[idx]),
             d, sch, columns, idx + 1, TRUE)

\* the value list of the INSERT branch, lines 533-544
RECURSIVE MergeInsertValues(_, _, _, _, _, _)
MergeInsertValues(st, d, sch, columns, idx, written) ==
    IF idx > Len(columns) THEN st
    ELSE IF InsertsColumn(sch, columns[idx])
         THEN MergeInsertValues(
                  WriteQuoted(WriteString(IF written THEN WriteText(st, <<",">>) ELSE st,
                                          "EXCLUDED."),
                              d, columns[idx]),
                  d, sch, columns, idx + 1, TRUE)
         ELSE MergeInsertValues(st, d, sch, columns, idx + 1, written)

\* MergeCreate, after the rewrite of line 463: set is the prepared DoUpdates
MergeCreate(st, d, sch, table, set, vals) ==
    LET s1 == WriteString(WriteQuoted(WriteString(st, "MERGE INTO "), d, table),
                          " USING (VALUES")
        s2 == ValueTuples(s1, d, vals.Values, 1)
        s3 == WriteColumns(WriteString(s2, ") AS EXCLUDED ("), d, vals.Columns, 1)
        s4 == MergeOn(WriteString(s3, ") ON "), d, table, sch.PrimaryFields, 1)
        s5 == IF Len(set) > 0
              THEN SetBuild(WriteString(s4, " WHEN MATCHED THEN UPDATE SET "), d, set, 1)
              ELSE s4
        s6 == MergeInsertColumns(WriteString(s5, " WHEN NOT MATCHED THEN INSERT ("),
                                 d, sch, vals.Columns, 1, FALSE)
        s7 == MergeInsertValues(WriteString(s6, ") VALUES ("),
                                d, sch, vals.Columns, 1, FALSE)
    IN WriteText(s7, <<")", ";">>)

-----------------------------------------------------------------------------
(* Create: the build step, lines 295-347 *)

\* the conflict honoured as soon as one primary key is in the Row-Set
HonorsConflictAnyKey(oc, sch, vals) ==
    /\ oc.present
    /\ Len(sch.PrimaryFields) > 0
    /\ \E i \in 1..Len(sch.PrimaryFields) :
           \E c \in 1..Len(vals.Columns) : vals.Columns[c] = sch.PrimaryFields[i]

\* lines 302-320: the conflict is honoured only with every primary key in the Row-Set
HonorsConflict(oc, sch, vals) ==
    /\ oc.present
    /\ Len(sch.PrimaryFields) > 0
    /\ \A i \in 1..Len(sch.PrimaryFields) :
           \E c \in 1..Len(vals.Columns) : vals.Columns[c] = sch.PrimaryFields[i]

\* lines 325-345: the INSERT branch
InsertCreate(st, d, table, vals) ==
    LET s1 == WriteText(WriteQuoted(WriteString(st, "INSERT INTO "), d, table), <<" ">>)
    IN IF Len(vals.Columns) > 0
       THEN IF shouldUseUnionSelect(d)
            THEN buildUnionSelectInsert(s1, d, vals)
            ELSE buildValuesInsert(s1, d, vals)
       ELSE WriteString(s1, "VALUES (DEFAULT);")

\* the build step without the test of line 295
BuildStatementAlways(st, d, sch, table, oc, vals) ==
    IF HonorsConflict(oc, sch, vals)
    THEN MergeCreate(st, d, sch, table, prepareOnConflictForMerge(d, oc.DoUpdates), vals)
    ELSE InsertCreate(st, d, table, vals)

\* the statement after lines 295-347
BuildStatement(st, d, sch, table, oc, vals) ==
    IF st.SQL = <<>>
    THEN IF HonorsConflict(oc, sch, vals)
         THEN MergeCreate(st, d, sch, table, prepareOnConflictForMerge(d, oc.DoUpdates), vals)
         ELSE InsertCreate(st, d, table, vals)
    ELSE st

-----------------------------------------------------------------------------
(* Create: execution and default-value recovery, lines 349-457 *)

\* an error that is dropped instead of recorded
AddErrorDropped(errors, err) == errors

\* db.AddError: the error joins the errors recorded so far
AddError(errors, err) == Append(errors, err)

\* the recovery query text, lines 375-387
RECURSIVE WriteDefaultColumns(_, _, _, _)
WriteDefaultColumns(st, d, fields, idx) ==
    IF idx > Len(fields) THEN st
    ELSE WriteDefaultColumns(
             WriteQuoted(IF idx > 1 THEN WriteText(st, <<",">>) ELSE st, d, fields[idx]),
             d, fields, idx + 1)

RecoveryQuery(d, sch) ==
    LET s0 == [SQL |-> <<>>, Vars |-> <<>>]
        s1 == WriteDefaultColumns(WriteString(s0, "SELECT "), d, sch.FieldsWithDefaultDBValue, 1)
        s2 == WriteQuoted(WriteString(s1, " FROM "), d, sch.Table)
    IN WriteString(s2, " CHANGES(INFORMATION => APPEND_ONLY) BEFORE(statement=>LAST_QUERY_ID());").SQL

\* the value a returned row carries for the f-th selected column; owner is
\* the input object whose insertion produced the row (0: a row of someone else)
RowVal(owner, f) == 10 * (owner + 1) + f

\* rows.Scan(values...) onto the default-tracked fields of one object:
\* database/sql assigns the destinations in order and stops at the first
\* column it cannot convert (row.bad; 0 when every column converts)
Scan(obj, row) ==
    [f \in 1..Len(obj) |->
        IF row.bad = 0 \/ f < row.bad THEN RowVal(row.owner, f) ELSE obj[f]]

ScanFails(row) == row.bad # 0

\* the zero check that skips only an object with every field set
hasOnlyNonZeroDefaults(obj) == \A f \in 1..Len(obj) : obj[f] # 0

\* lines 414-421: some default-tracked field of the object is not zero
hasNonZeroDefaults(obj) == \E f \in 1..Len(obj) : obj[f] # 0

\* lines 407-430: the first index from reflectIndex on whose object has only
\* zero defaults; maxLen + 1 when there is none
NextInsertable(objs, from) ==
    IF \E j \in from..Len(objs) : ~hasNonZeroDefaults(objs[j])
    THEN Min({j \in from..Len(objs) : ~hasNonZeroDefaults(objs[j])})
    ELSE Len(objs) + 1

-----------------------------------------------------------------------------
(* Inputs *)

nID == <<"i","d">>
nName == <<"N","m">>
nAge == <<"a","g">>
nStamp == <<"t","s">>
tModels == <<"t","m">>
tOther == <<"o","t">>

ColNames == {nID, nName, nAge}

\* the rows of a Row-Set: a row of kind k carries the bound value 10k + c in
\* column c, so the values of a row differ and two rows of a kind are equal
RowKinds == {1, 2}
RowOf(kind, nc) == [c \in 1..nc |-> 10 * kind + c]

\* sequences without repetition over S, of length n
InjSeqs(S, n) == {q \in [1..n -> S] : \A i, j \in 1..n : q[i] = q[j] => i = j}

Dialectors ==
    [isSnowflake : {TRUE}, hasConfig : {TRUE},
     QuoteFields : BOOLEAN, UseUnionSelect : BOOLEAN]

\* Open(dsn): the configuration Open builds
Open(dsn) ==
    [isSnowflake |-> TRUE, hasConfig |-> TRUE, QuoteFields |-> FALSE,
     UseUnionSelect |-> TRUE]

\* a composite literal Config{...}: a field the caller leaves out has the
\* zero value of its type
ConfigLiteral(fields) ==
    [QuoteFields |-> fields.quote, UseUnionSelect |-> fields.flag = "true"]

\* New(config): the dialector holds the caller's configuration
New(config) ==
    [isSnowflake |-> TRUE, hasConfig |-> TRUE, QuoteFields |-> config.QuoteFields,
     UseUnionSelect |-> config.UseUnionSelect]

\* the mockDialector of create_test.go: not a Snowflake dialector, it quotes
\* and binds by writing nothing
mockDialector ==
    [isSnowflake |-> FALSE, hasConfig |-> FALSE, QuoteFields |-> FALSE,
     UseUnionSelect |-> FALSE]

\* what a caller does to obtain a dialector: flag is what it says about
\* UseUnionSelect
Mades ==
    {[by |-> "Open", flag |-> "unset", quote |-> FALSE],
     [by |-> "other", flag |-> "unset", quote |-> FALSE]}
    \cup [by : {"New"}, flag : {"unset", "true", "false"}, quote : BOOLEAN]

MakeDialector(m) ==
    CASE m.by = "Open" -> Open(<<"d","s","n">>)
      [] m.by = "New" -> New(ConfigLiteral(m))
      [] m.by = "other" -> mockDialector

\* a dialector of Dialectors is one the caller made with every field set
AsConfigured(d) ==
    [by |-> "New", flag |-> IF d.UseUnionSelect THEN "true" ELSE "false",
     quote |-> d.QuoteFields]

NoField == [present |-> FALSE, DBName |-> <<>>, AutoIncrement |-> FALSE]

\* the prioritized primary field of a schema: the only primary key, or the
\* one named id (listed first in PrimaryKeyLists)
Prioritized(primaryFields, autoIncrement) ==
    IF Len(primaryFields) = 0 THEN NoField
    ELSE [present |-> TRUE, DBName |-> primaryFields[1], AutoIncrement |-> autoIncrement]

PrimaryKeyLists == {<<>>, <<nID>>, <<nID, nName>>, <<nName>>}
DefaultLists == {<<>>, <<nID>>, <<nID, nStamp>>}

Schemas(defaultLists) ==
    {[Table |-> tModels, PrimaryFields |-> pk,
      PrioritizedPrimaryField |-> Prioritized(pk, ai),
      FieldsWithDefaultDBValue |-> df] :
        pk \in PrimaryKeyLists, ai \in BOOLEAN, df \in defaultLists}

RowSets(colCounts, rowCounts) ==
    UNION {UNION {{[Columns |-> cols, Values |-> vs] :
                       cols \in InjSeqs(ColNames, nc),
                       vs \in {[r \in 1..nr |-> RowOf(kinds[r], nc)] :
                                  kinds \in [1..nr -> RowKinds]}} :
                  nr \in rowCounts} :
           nc \in colCounts}

NoConflict == [present |-> FALSE, Columns |-> <<>>, DoUpdates |-> <<>>]

-----------------------------------------------------------------------------
(* Actions: one invocation of Create *)

\* lines 295-347; ConvertToCreateValues (line 297) records ErrEmptySlice for
\* an empty collection and returns the column list without rows
Build ==
    /\ pc = "start"
    /\ LET st == BuildStatement([SQL |-> SQL, Vars |-> Vars], dialector, schema,
                                stmtTable, onConflict, values)
       IN /\ SQL' = st.SQL
          /\ Vars' = st.Vars
    /\ prepared' = IF SQL = <<>> /\ HonorsConflict(onConflict, schema, values)
                   THEN prepareOnConflictForMerge(dialector, onConflict.DoUpdates)
                   ELSE <<>>
    /\ Error' = IF SQL = <<>> /\ reflectKind = "slice" /\ Len(objects) = 0
                THEN AddError(Error, "ErrEmptySlice")
                ELSE Error
    /\ pc' = "built"
    /\ UNCHANGED <<inputs, objects, RowsAffected, rows, reflectIndex, fetched,
                   execCalls, queryCalls, scanLog, inserted>>

\* line 349: dry run, or an error already recorded
SkipExec ==
    /\ pc = "built"
    /\ DryRun \/ Error # <<>>
    /\ pc' = "done"
    /\ UNCHANGED <<inputs, objects, SQL, Vars, Error, RowsAffected, rows, reflectIndex,
                   fetched, prepared, execCalls, queryCalls, scanLog, inserted>>

ExecOutcomes == {[ok |-> TRUE, n |-> 1], [ok |-> TRUE, n |-> 2], [ok |-> FALSE, n |-> 0]}

\* the primary statement executed in dry-run mode too
ExecInDryRun ==
    /\ pc = "built"
    /\ Error = <<>>
    /\ \E result \in ExecOutcomes :
          /\ execCalls' = Append(execCalls, [sql |-> SQL, vars |-> Vars, result |-> result])
          /\ IF result.ok
             THEN /\ RowsAffected' = result.n
                  /\ UNCHANGED Error
             ELSE /\ RowsAffected' = 0
                  /\ Error' = AddError(Error, "exec")
    /\ pc' = "executed"
    /\ UNCHANGED <<inputs, objects, SQL, Vars, rows, reflectIndex, fetched, prepared,
                   queryCalls, scanLog, inserted>>

\* lines 349-357: the primary statement
Exec ==
    /\ pc = "built"
    /\ ~DryRun /\ Error = <<>>
    /\ \E result \in ExecOutcomes :
          /\ execCalls' = Append(execCalls, [sql |-> SQL, vars |-> Vars, result |-> result])
          /\ IF result.ok
             THEN /\ RowsAffected' = result.n
                  /\ UNCHANGED Error
             ELSE /\ RowsAffected' = 0
                  /\ Error' = AddError(Error, "exec")
    /\ pc' = "executed"
    /\ UNCHANGED <<inputs, objects, SQL, Vars, rows, reflectIndex, fetched, prepared,
                   queryCalls, scanLog, inserted>>

\* line 363: no server-defaulted column, no recovery
NoRecovery ==
    /\ pc = "executed"
    /\ Len(schema.FieldsWithDefaultDBValue) = 0
    /\ pc' = "done"
    /\ UNCHANGED <<inputs, objects, SQL, Vars, Error, RowsAffected, rows, reflectIndex,
                   fetched, prepared, execCalls, queryCalls, scanLog, inserted>>

\* the rows of the change feed: one per inserted object, in input order, then
\* possibly a row appended by someone else
RECURSIVE OwnRows(_, _, _)
OwnRows(ins, bad, i) ==
    IF i > Len(bad) THEN <<>>
    ELSE (IF i \in ins THEN <<[owner |-> i, bad |-> bad[i]]>> ELSE <<>>)
         \o OwnRows(ins, bad, i + 1)

Feeds(n, fieldCount, ins) ==
    {OwnRows(ins, bad, 1) \o extra :
        bad \in {b \in [1..n -> 0..fieldCount] : \A i \in 1..n : i \notin ins => b[i] = 0},
        extra \in {<<>>, <<[owner |-> 0, bad |-> 0]>>}}

\* the recovery query sent whatever the schema declares
QueryWithoutDefaults ==
    /\ pc = "executed"
    /\ SQL' = RecoveryQuery(dialector, schema)
    /\ \/ /\ queryCalls' = Append(queryCalls, [sql |-> SQL', vars |-> Vars, ok |-> FALSE])
          /\ Error' = AddError(Error, "query")
          /\ pc' = "done"
          /\ UNCHANGED <<rows, inserted>>
       \/ /\ queryCalls' = Append(queryCalls, [sql |-> SQL', vars |-> Vars, ok |-> TRUE])
          /\ \E ins \in SUBSET (1..Len(objects)) :
                /\ inserted' = ins
                /\ rows' \in Feeds(Len(objects), Len(schema.FieldsWithDefaultDBValue), ins)
          /\ pc' = "recover"
          /\ UNCHANGED Error
    /\ UNCHANGED <<inputs, objects, Vars, RowsAffected, reflectIndex, fetched, prepared,
                   execCalls, scanLog>>

\* lines 363-394: the recovery query
Query ==
    /\ pc = "executed"
    /\ Len(schema.FieldsWithDefaultDBValue) > 0
    /\ SQL' = RecoveryQuery(dialector, schema)
    /\ \/ /\ queryCalls' = Append(queryCalls, [sql |-> SQL', vars |-> Vars, ok |-> FALSE])
          /\ Error' = AddError(Error, "query")
          /\ pc' = "done"
          /\ UNCHANGED <<rows, inserted>>
       \/ /\ queryCalls' = Append(queryCalls, [sql |-> SQL', vars |-> Vars, ok |-> TRUE])
          /\ \E ins \in SUBSET (1..Len(objects)) :
                /\ inserted' = ins
                /\ rows' \in Feeds(Len(objects), Len(schema.FieldsWithDefaultDBValue), ins)
          /\ pc' = "recover"
          /\ UNCHANGED Error
    /\ UNCHANGED <<inputs, objects, Vars, RowsAffected, reflectIndex, fetched, prepared,
                   execCalls, scanLog>>

\* the loop over the returned rows that a scan error ends
RecoverSliceAbortOnScanError ==
    /\ pc = "recover"
    /\ reflectKind = "slice"
    /\ IF rows = <<>>
       THEN /\ pc' = "done"
            /\ UNCHANGED <<objects, Error, rows, reflectIndex, fetched, scanLog>>
       ELSE /\ rows' = Tail(rows)
            /\ fetched' = fetched + 1
            /\ LET j == NextInsertable(objects, reflectIndex)
               IN IF j > Len(objects)
                  THEN /\ pc' = "done"
                       /\ reflectIndex' = j
                       /\ UNCHANGED <<objects, Error, scanLog>>
                  ELSE /\ objects' = [objects EXCEPT ![j] = Scan(@, Head(rows))]
                       /\ Error' = IF ScanFails(Head(rows)) THEN AddError(Error, "scan") ELSE Error
                       /\ scanLog' = Append(scanLog, [row |-> fetched', obj |-> j, data |-> Head(rows)])
                       /\ reflectIndex' = j + 1
                       /\ pc' = IF ScanFails(Head(rows)) THEN "done" ELSE "recover"
    /\ UNCHANGED <<inputs, SQL, Vars, RowsAffected, prepared, execCalls, queryCalls, inserted>>

\* lines 400-444: one turn of the loop over the returned rows of a collection insert
RecoverSlice ==
    /\ pc = "recover"
    /\ reflectKind = "slice"
    /\ IF rows = <<>>
       THEN /\ pc' = "done"
            /\ UNCHANGED <<objects, Error, rows, reflectIndex, fetched, scanLog>>
       ELSE /\ rows' = Tail(rows)
            /\ fetched' = fetched + 1
            /\ LET j == NextInsertable(objects, reflectIndex)
               IN IF j > Len(objects)
                  THEN /\ pc' = "done"
                       /\ reflectIndex' = j
                       /\ UNCHANGED <<objects, Error, scanLog>>
                  ELSE /\ objects' = [objects EXCEPT ![j] = Scan(@, Head(rows))]
                       /\ Error' = IF ScanFails(Head(rows)) THEN AddError(Error, "scan") ELSE Error
                       /\ scanLog' = Append(scanLog, [row |-> fetched', obj |-> j, data |-> Head(rows)])
                       /\ reflectIndex' = j + 1
                       /\ pc' = "recover"
    /\ UNCHANGED <<inputs, SQL, Vars, RowsAffected, prepared, execCalls, queryCalls, inserted>>

\* a single-object insert that applies the zero check of the collection loop
RecoverStructZeroChecked ==
    /\ pc = "recover"
    /\ reflectKind = "struct"
    /\ IF rows = <<>> \/ hasNonZeroDefaults(objects[1])
       THEN UNCHANGED <<objects, Error, rows, fetched, scanLog>>
       ELSE /\ rows' = Tail(rows)
            /\ fetched' = fetched + 1
            /\ objects' = [objects EXCEPT ![1] = Scan(@, Head(rows))]
            /\ Error' = IF ScanFails(Head(rows)) THEN AddError(Error, "scan") ELSE Error
            /\ scanLog' = Append(scanLog, [row |-> fetched', obj |-> 1, data |-> Head(rows)])
    /\ pc' = "done"
    /\ UNCHANGED <<inputs, SQL, Vars, RowsAffected, reflectIndex, prepared, execCalls,
                   queryCalls, inserted>>

\* lines 445-454: a single-object insert
RecoverStruct ==
    /\ pc = "recover"
    /\ reflectKind = "struct"
    /\ IF rows = <<>>
       THEN UNCHANGED <<objects, Error, rows, fetched, scanLog>>
       ELSE /\ rows' = Tail(rows)
            /\ fetched' = fetched + 1
            /\ objects' = [objects EXCEPT ![1] = Scan(@, Head(rows))]
            /\ Error' = IF ScanFails(Head(rows)) THEN AddError(Error, "scan") ELSE Error
            /\ scanLog' = Append(scanLog, [row |-> fetched', obj |-> 1, data |-> Head(rows)])
    /\ pc' = "done"
    /\ UNCHANGED <<inputs, SQL, Vars, RowsAffected, reflectIndex, prepared, execCalls,
                   queryCalls, inserted>>

\* line 399: neither a collection nor a struct (an insert from a map)
RecoverOther ==
    /\ pc = "recover"
    /\ reflectKind = "map"
    /\ pc' = "done"
    /\ UNCHANGED <<inputs, objects, SQL, Vars, Error, RowsAffected, rows, reflectIndex,
                   fetched, prepared, execCalls, queryCalls, scanLog, inserted>>

-----------------------------------------------------------------------------
(* Initial states and specifications *)

\* the default-tracked field values of the input objects: 0 is the zero value
FieldVals == {0, 5}

ObjectLists(kind, fieldCount) ==
    CASE kind = "struct" -> [1..1 -> [1..fieldCount -> FieldVals]]
      [] kind = "slice" -> UNION {[1..n -> [1..fieldCount -> FieldVals]] : n \in 0..MaxObjs}
      [] kind = "map" -> {<<>>}

\* the state of an invocation whose inputs are chosen
Started(pre) ==
    /\ init = pre
    /\ objects = pre.objects
    /\ SQL = pre.SQL
    /\ Vars = pre.Vars
    /\ Error = pre.Error
    /\ RowsAffected = pre.RowsAffected
    /\ pc = "start"
    /\ rows = <<>>
    /\ reflectIndex = 1
    /\ fetched = 0
    /\ prepared = <<>>
    /\ execCalls = <<>>
    /\ queryCalls = <<>>
    /\ scanLog = <<>>
    /\ inserted = {}
    /\ quoteCalls = <<>>
    /\ translateCalls = <<>>
    /\ limitCalls = <<>>

Start(pre) ==
    /\ Started(pre)
    /\ made = AsConfigured(dialector)

\* the number of Row-Set rows ConvertToCreateValues extracts from the input
RowCount(kind, objs) == IF kind = "slice" THEN Len(objs) ELSE 1

\* Create as a whole: execution and recovery over a small fixed Row-Set shape
Init ==
    /\ dialector \in {d \in Dialectors : d.UseUnionSelect}
    /\ schema \in {s \in Schemas(DefaultLists) :
                      s.PrimaryFields = <<nID>> /\ s.PrioritizedPrimaryField.AutoIncrement}
    /\ stmtTable \in {tModels, tOther}
    /\ reflectKind \in {"struct", "slice", "map"}
    /\ onConflict \in {NoConflict, [present |-> TRUE, Columns |-> <<>>, DoUpdates |-> <<>>]}
    /\ DryRun \in BOOLEAN
    /\ \E objs \in ObjectLists(reflectKind, Len(schema.FieldsWithDefaultDBValue)),
          text \in {<<>>, <<"EXISTING SQL">>},
          err \in {<<>>, <<"earlier">>},
          ra \in {0, 3} :
          /\ values = [Columns |-> <<nName, nID>>,
                       Values |-> [i \in 1..RowCount(reflectKind, objs) |-> RowOf(1, 2)]]
          /\ Start([SQL |-> text, Vars |-> IF text = <<>> THEN <<>> ELSE <<9>>,
                    Error |-> err, RowsAffected |-> ra, objects |-> objs])

Next ==
    \/ Build
    \/ SkipExec
    \/ Exec
    \/ NoRecovery
    \/ Query
    \/ RecoverSlice
    \/ RecoverStruct
    \/ RecoverOther

Spec == Init /\ [][Next]_vars

\* Create in dry-run mode over every Row-Set, schema and configuration
InitBuild ==
    /\ dialector \in Dialectors
    /\ schema \in Schemas({<<nID>>})
    /\ stmtTable = tModels
    /\ reflectKind = "slice"
    /\ onConflict \in {NoConflict,
                       [present |-> TRUE, Columns |-> <<>>, DoUpdates |-> <<>>],
                       [present |-> TRUE, Columns |-> <<>>,
                        DoUpdates |-> <<[Column |-> nAge, Value |-> Col(nAge)]>>]}
    /\ DryRun = TRUE
    /\ values \in RowSets(0..MaxCols, 0..MaxRows)
    /\ \E pre \in {<<>>, <<9>>} :
          Start([SQL |-> <<>>, Vars |-> pre, Error |-> <<>>, RowsAffected |-> 0,
                 objects |-> [i \in 1..Len(values.Values) |-> <<0>>]])

NextBuild ==
    \/ Build
    \/ SkipExec

SpecBuild == InitBuild /\ [][NextBuild]_vars

\* MergeCreate called on its own, as the tests of create_test.go call it: the
\* caller has not checked the primary keys against the Row-Set
Merge ==
    /\ pc = "start"
    /\ LET set == prepareOnConflictForMerge(dialector, onConflict.DoUpdates)
           st == MergeCreate([SQL |-> SQL, Vars |-> Vars], dialector, schema,
                             stmtTable, set, values)
       IN /\ SQL' = st.SQL
          /\ Vars' = st.Vars
          /\ prepared' = set
    /\ pc' = "built"
    /\ UNCHANGED <<inputs, objects, Error, RowsAffected, rows, reflectIndex, fetched,
                   execCalls, queryCalls, scanLog, inserted>>

\* the statement is read back by the caller
ReadBack ==
    /\ pc = "built"
    /\ pc' = "done"
    /\ UNCHANGED <<inputs, objects, SQL, Vars, Error, RowsAffected, rows, reflectIndex,
                   fetched, prepared, execCalls, queryCalls, scanLog, inserted>>

InitMerge ==
    /\ dialector \in {d \in Dialectors : d.UseUnionSelect}
    /\ schema \in Schemas({<<nID>>})
    /\ stmtTable = tModels
    /\ reflectKind = "slice"
    /\ onConflict \in
          {[present |-> TRUE, Columns |-> cs, DoUpdates |-> du] :
              cs \in {<<>>, <<nID>>, <<nName>>},
              du \in {<<>>, <<[Column |-> nAge, Value |-> Lit(7)]>>}}
    /\ DryRun = TRUE
    /\ values \in RowSets(0..MaxCols, 0..MaxRows)
    /\ \E pre \in {<<>>, <<9>>} :
          Start([SQL |-> <<>>, Vars |-> pre, Error |-> <<>>, RowsAffected |-> 0,
                 objects |-> [i \in 1..Len(values.Values) |-> <<0>>]])

NextMerge ==
    \/ Merge
    \/ ReadBack

SpecMerge == InitMerge /\ [][NextMerge]_vars

\* an insert in dry-run mode on a dialector the caller obtained in one of the
\* ways of Mades
InitDialector ==
    /\ made \in Mades
    /\ dialector = MakeDialector(made)
    /\ schema \in {s \in Schemas({<<nID>>}) :
                      s.PrimaryFields = <<>> /\ ~s.PrioritizedPrimaryField.AutoIncrement}
    /\ stmtTable = tModels
    /\ reflectKind = "slice"
    /\ onConflict = NoConflict
    /\ DryRun = TRUE
    /\ values \in RowSets(1..MaxCols, 1..MaxRows)
    /\ \E pre \in {<<>>, <<9>>} :
          Started([SQL |-> <<>>, Vars |-> pre, Error |-> <<>>, RowsAffected |-> 0,
                   objects |-> [i \in 1..Len(values.Values) |-> <<0>>]])

SpecDialector == InitDialector /\ [][NextBuild]_vars

\* the strings the tests hand to QuoteTo: bare and dotted names, the
\* pseudo-table token, function calls and other uses of parentheses
QuoteInputs ==
    {<<>>,
     nAge,
     nName,
     tModels \o <<".">> \o nName,
     <<"t",".",".","N">>,
     <<"a",".","b",".","C">>,
     <<"E","X","C","L","U","D","E","D">>,
     <<"E","x","c","l","u","d","e","d">>,
     <<"e","x","c","l","u","d","e","d",".">> \o nName,
     <<"S","U","M","(">> \o nName \o <<")">>,
     <<"S","U","M","(">> \o tModels \o <<".">> \o nName \o <<")">>,
     <<"S","U","M","(","A","B","S","(">> \o nName \o <<")",")">>,
     <<"(">> \o nName \o <<")">>}

\* one call of Dialector.QuoteTo on a writer that collects the text
QuoteCall ==
    /\ pc = "start"
    /\ Len(quoteCalls) < MaxCalls
    /\ \E str \in QuoteInputs :
          /\ SQL' = WriteQuoted([SQL |-> SQL, Vars |-> Vars], dialector, str).SQL
          /\ quoteCalls' = Append(quoteCalls,
                                  [str |-> str,
                                   text |-> SubSeq(SQL', Len(SQL) + 1, Len(SQL'))])
    /\ UNCHANGED <<dialector, schema, stmtTable, values, onConflict, DryRun, reflectKind,
                   init, objects, Vars, Error, RowsAffected, pc, rows, reflectIndex,
                   fetched, prepared, execCalls, queryCalls, scanLog, inserted, made,
                   translateCalls, limitCalls>>

\* a dialector of either quoting mode and an empty writer
InitQuote ==
    /\ dialector \in {d \in Dialectors : d.UseUnionSelect}
    /\ schema \in {s \in Schemas({<<>>}) : s.PrimaryFields = <<>> /\ ~s.PrioritizedPrimaryField.AutoIncrement}
    /\ stmtTable = tModels
    /\ reflectKind = "struct"
    /\ onConflict = NoConflict
    /\ DryRun = TRUE
    /\ values = [Columns |-> <<>>, Values |-> <<>>]
    /\ Start([SQL |-> <<>>, Vars |-> <<>>, Error |-> <<>>, RowsAffected |-> 0,
              objects |-> <<>>])

NextQuote == QuoteCall

SpecQuote == InitQuote /\ [][NextQuote]_vars

\* the messages of the errors handed to Translate
Messages ==
    {<<"D","u","p","l","i","c","a","t","e"," ","e","n","t","r","y">>,
     <<"U","N","I","Q","U","E"," ","k","e","y">>,
     <<"f","o","r","e","i","g","n"," ","k","e","y"," ","f","a","i","l","s">>,
     <<"F","o","r","e","i","g","n"," ","K","e","y"," ","n","o","t"," ","u","n","i","q","u","e">>,
     <<"C","h","e","c","k"," ","c","o","n","s","t","r","a","i","n","t"," ","o","n"," ","f","o","r","e","i","g","n"," ","k","e","y">>,
     <<"c","h","e","c","k"," ","c","o","n","s","t","r","a","i","n","t">>,
     <<"I","n","v","a","l","i","d"," ","v","a","l","u","e",","," ","c","h","e","c","k"," ","c","o","n","s","t","r","a","i","n","t">>,
     <<"i","n","v","a","l","i","d"," ","v","a","l","u","e">>,
     <<"I","n","v","a","l","i","d"," ","d","a","t","a">>,
     <<"i","n","v","a","l","i","d">>,
     <<"d","a","t","a"," ","v","a","l","u","e">>,
     <<"o","t","h","e","r">>,
     <<>>}

\* the errors handed to Translate: nil, an error of another type, a Snowflake
\* error, and each of the two wrapped with fmt.Errorf("...%w", err)
SnowflakeError(number, message) ==
    [kind |-> "snowflake", Number |-> number, Message |-> message]
\* the messages that are also sent under another number, and wrapped
Repeated == {m \in Messages : Len(m) \in {5, 15, 22}}
PlainError == [kind |-> "plain", text |-> <<"r","e","g","u","l","a","r">>]
TranslateInputs ==
    {NilError, PlainError, [kind |-> "wrapped", inner |-> PlainError]}
    \cup {SnowflakeError(1062, m) : m \in Messages}
    \cup {SnowflakeError(999999, m) : m \in Repeated}
    \cup {[kind |-> "wrapped", inner |-> SnowflakeError(1062, m)] : m \in Repeated}

TranslateCall ==
    /\ pc = "start"
    /\ Len(translateCalls) < MaxCalls
    /\ \E err \in TranslateInputs :
          translateCalls' = Append(translateCalls, [err |-> err, out |-> Translate(err)])
    /\ UNCHANGED <<dialector, schema, stmtTable, values, onConflict, DryRun, reflectKind,
                   init, objects, SQL, Vars, Error, RowsAffected, pc, rows, reflectIndex,
                   fetched, prepared, execCalls, queryCalls, scanLog, inserted, made,
                   quoteCalls, limitCalls>>

NextTranslate == TranslateCall

SpecTranslate == InitQuote /\ [][NextTranslate]_vars

\* the clause.Limit values handed to the LIMIT builder
Limits ==
    [Offset : {-2, 0, 3, 10}, Limit : {NilInt, IntPtr(-1), IntPtr(0), IntPtr(5), IntPtr(12)}]

LimitCall ==
    /\ pc = "start"
    /\ Len(limitCalls) < MaxCalls
    /\ \E limit \in Limits : \E hasOrderBy \in BOOLEAN :
          /\ SQL' = LimitBuilder([SQL |-> SQL, Vars |-> Vars], dialector, schema,
                                 hasOrderBy, limit).SQL
          /\ limitCalls' = Append(limitCalls,
                                  [limit |-> limit, hasOrderBy |-> hasOrderBy,
                                   text |-> SubSeq(SQL', Len(SQL) + 1, Len(SQL'))])
    /\ UNCHANGED <<dialector, schema, stmtTable, values, onConflict, DryRun, reflectKind,
                   init, objects, Vars, Error, RowsAffected, pc, rows, reflectIndex,
                   fetched, prepared, execCalls, queryCalls, scanLog, inserted, made,
                   quoteCalls, translateCalls>>

\* a statement with or without a prioritized primary field and an empty text
InitLimit ==
    /\ dialector \in {d \in Dialectors : d.UseUnionSelect}
    /\ schema \in {s \in Schemas({<<>>}) :
                      s.PrimaryFields \in {<<>>, <<nID>>} /\ ~s.PrioritizedPrimaryField.AutoIncrement}
    /\ stmtTable = tModels
    /\ reflectKind = "struct"
    /\ onConflict = NoConflict
    /\ DryRun = TRUE
    /\ values = [Columns |-> <<>>, Values |-> <<>>]
    /\ Start([SQL |-> <<>>, Vars |-> <<>>, Error |-> <<>>, RowsAffected |-> 0,
              objects |-> <<>>])

NextLimit == LimitCall

SpecLimit == InitLimit /\ [][NextLimit]_vars

\* the names a caller may put into the value of an Update Assignment
RefNames ==
    {<<"e","x","c","l","u","d","e","d",".">> \o nAge,
     <<"E","X","C","L","U","D","E","D",".">> \o nAge,
     <<"E","x","c","l","u","d","e","d",".">> \o nAge,
     <<"e","x","c","l","u","d","e","d",".">> \o nName,
     <<"e","x","c","l","u","d","e","d">>,
     <<"E","X","C","L","U","D","E","D">>,
     <<"e","x","c","l","u","d","e","d",".">>,
     <<"e","x","c","l","u","d","e","d","x">>,
     nAge,
     tModels \o <<".">> \o nAge}

AssignmentValues ==
    {Col(name) : name \in RefNames}
        \cup {Lit(7), Expr(<<"N","O","W","(",")">>)}

Assignments == [Column : {nAge, nName}, Value : AssignmentValues]

\* a MERGE in dry-run mode over every Conflict Specification
InitRewrite ==
    /\ dialector \in {d \in Dialectors : d.UseUnionSelect}
    /\ schema \in {s \in Schemas({<<nID>>}) :
                      s.PrimaryFields = <<nID>> /\ s.PrioritizedPrimaryField.AutoIncrement}
    /\ stmtTable = tModels
    /\ reflectKind = "struct"
    /\ \E n \in 0..MaxUpdates : \E set \in [1..n -> Assignments] :
          onConflict = [present |-> TRUE, Columns |-> <<nID>>, DoUpdates |-> set]
    /\ DryRun = TRUE
    /\ values = [Columns |-> <<nName, nID>>, Values |-> <<RowOf(1, 2)>>]
    /\ Start([SQL |-> <<>>, Vars |-> <<>>, Error |-> <<>>, RowsAffected |-> 0,
              objects |-> <<<<0>>>>])

SpecRewrite == InitRewrite /\ [][NextBuild]_vars

-----------------------------------------------------------------------------
(* Reading generated text *)

\* the first position of a piece in a text, 0 when it is absent
IndexOf(text, piece) ==
    IF \E i \in 1..Len(text) : text[i] = piece
    THEN Min({i \in 1..Len(text) : text[i] = piece})
    ELSE 0

\* the number of occurrences of a piece in a text
Count(text, piece) == Cardinality({i \in 1..Len(text) : text[i] = piece})

\* the items of a comma-joined list
Items(text) == IF text = <<>> THEN <<>> ELSE Split(text, ",")

\* the Row-Set values in row-major order
RowMajor(vals) ==
    [k \in 1..(Len(vals.Values) * Len(vals.Columns)) |->
        vals.Values[((k - 1) \div Len(vals.Columns)) + 1][((k - 1) % Len(vals.Columns)) + 1]]

IsInsert == SQL # <<>> /\ SQL[1] = "INSERT INTO "
IsMerge == SQL # <<>> /\ SQL[1] = "MERGE INTO "
Built == pc # "start" /\ init.SQL = <<>>

-----------------------------------------------------------------------------
(* Claims *)

IsIdentity(column) ==
    /\ schema.PrioritizedPrimaryField.present
    /\ schema.PrioritizedPrimaryField.AutoIncrement
    /\ schema.PrioritizedPrimaryField.DBName = column

NotMatchedColumns ==
    Items(SubSeq(SQL, IndexOf(SQL, " WHEN NOT MATCHED THEN INSERT (") + 1,
                 IndexOf(SQL, ") VALUES (") - 1))

NotMatchedValues ==
    Items(SubSeq(SQL, IndexOf(SQL, ") VALUES (") + 1, Len(SQL) - 2))

C2_IdentityNotInserted ==
    (Built /\ IsMerge) =>
        \A c \in 1..Len(values.Columns) :
            LET column == values.Columns[c]
                quoted == QuoteTo(dialector, column)
            IN IF IsIdentity(column)
               THEN /\ quoted \notin Range(NotMatchedColumns)
                    /\ <<"EXCLUDED.">> \o quoted \notin Range(NotMatchedValues)
               ELSE /\ quoted \in Range(NotMatchedColumns)
                    /\ <<"EXCLUDED.">> \o quoted \in Range(NotMatchedValues)

C2_Witness ==
    /\ Built /\ IsMerge
    /\ values.Columns = <<nName, nID>>
    /\ IsIdentity(nID)
    /\ NotMatchedColumns = <<QuoteTo(dialector, nName)>>

\* C3: a column reference <tok>.<col> with <tok> = excluded in any casing is
\* replaced by the raw expression EXCLUDED.<col>, the token in upper case, the
\* column with its original characters, in double quotes when quoting is
\* enabled; inputs that differ only in the casing of the token give the same output.
IsExcludedRef(v) ==
    /\ v.kind = "col"
    /\ Len(v.val) >= 9
    /\ ToLower(SubSeq(v.val, 1, 8)) = <<"e","x","c","l","u","d","e","d">>
    /\ v.val[9] = "."

RefColumn(v) == SubSeq(v.val, 10, Len(v.val))

C3_ExcludedUpperCase ==
    (Built /\ IsMerge) =>
        /\ Len(prepared) = Len(onConflict.DoUpdates)
        /\ \A i \in 1..Len(onConflict.DoUpdates) :
              IsExcludedRef(onConflict.DoUpdates[i].Value) =>
                  /\ prepared[i].Value.kind = "expr"
                  /\ prepared[i].Value.val =
                        <<"E","X","C","L","U","D","E","D",".">>
                        \o (IF dialector.QuoteFields
                            THEN <<"\"">> \o RefColumn(onConflict.DoUpdates[i].Value) \o <<"\"">>
                            ELSE RefColumn(onConflict.DoUpdates[i].Value))
        /\ \A i, j \in 1..Len(onConflict.DoUpdates) :
              (/\ IsExcludedRef(onConflict.DoUpdates[i].Value)
               /\ IsExcludedRef(onConflict.DoUpdates[j].Value)
               /\ RefColumn(onConflict.DoUpdates[i].Value)
                     = RefColumn(onConflict.DoUpdates[j].Value))
                  => prepared[i].Value = prepared[j].Value

C3_Witness ==
    /\ Built /\ IsMerge
    /\ dialector.QuoteFields
    /\ Len(onConflict.DoUpdates) = 2
    /\ onConflict.DoUpdates[1].Value = Col(<<"e","x","c","l","u","d","e","d",".">> \o nAge)
    /\ onConflict.DoUpdates[2].Value = Col(<<"E","X","C","L","U","D","E","D",".">> \o nAge)
    /\ prepared[2].Value.val = <<"E","X","C","L","U","D","E","D",".","\"","a","g","\"">>

\* C4: with an ON CONFLICT clause present, Create builds a MERGE exactly when
\* the schema has a primary key and every primary-key column is a Row-Set
\* column; in every other case it builds an INSERT.
AllKeysPresent ==
    /\ schema.PrimaryFields # <<>>
    /\ Range(schema.PrimaryFields) \subseteq Range(values.Columns)

C4_MergeIffAllKeys ==
    (Built /\ onConflict.present) =>
        /\ IsMerge <=> AllKeysPresent
        /\ IsInsert <=> ~AllKeysPresent

C4_Witness ==
    /\ Built /\ onConflict.present
    /\ schema.PrimaryFields = <<nID, nName>>
    /\ values.Columns = <<nAge, nID>>
    /\ IsInsert

\* C5: without an honoured conflict, a Row-Set without columns gives
\* 'VALUES (DEFAULT);' and no parameter whatever the flag; otherwise the union
\* flag gives '(cols) SELECT ...' with one SELECT per row, rows-1 times
\* ' UNION SELECT ' and no VALUES, the plain flag gives '(cols) VALUES (..),(..)'
\* with one tuple per row and no UNION SELECT; every statement ends with ';'.
\* selects and unions are the numbers of SELECTs and of ' UNION SELECT ' the
\* union form is to have.
InsertForm(selects, unions) ==
    (Built /\ IsInsert) =>
        IF Len(values.Columns) = 0
        THEN /\ SQL = <<"INSERT INTO ">> \o QuoteTo(dialector, stmtTable)
                          \o <<" ", "VALUES (DEFAULT);">>
             /\ Vars = init.Vars
        ELSE /\ SQL[Len(SQL)] = ";"
             /\ Count(SQL, "VALUES (DEFAULT);") = 0
             /\ IF dialector.UseUnionSelect
                THEN /\ Count(SQL, ") SELECT ") + Count(SQL, " UNION SELECT ") = selects
                     /\ Count(SQL, " UNION SELECT ") = unions
                     /\ Count(SQL, " VALUES ") = 0
                ELSE /\ Count(SQL, " VALUES ") = 1
                     /\ Count(SubSeq(SQL, IndexOf(SQL, " VALUES "), Len(SQL)), "(")
                           = Len(values.Values)
                     /\ Count(SubSeq(SQL, IndexOf(SQL, " VALUES "), Len(SQL)), ")")
                           = Len(values.Values)
                     /\ Count(SQL, ") SELECT ") + Count(SQL, " UNION SELECT ") = 0

\* C5 as stated: one SELECT per row and rows-1 separators for every Row-Set
C5_Original == InsertForm(Len(values.Values), Len(values.Values) - 1)

\* C5 amended: as stated for a Row-Set with at least one row; a Row-Set with
\* columns and no row gives in union mode '(cols) SELECT ;', one SELECT and
\* no ' UNION SELECT '
C5_InsertForms ==
    IF Len(values.Values) = 0
    THEN InsertForm(1, 0)
    ELSE InsertForm(Len(values.Values), Len(values.Values) - 1)

C5_Witness ==
    /\ Built /\ IsInsert
    /\ dialector.UseUnionSelect
    /\ Len(values.Columns) = 2
    /\ Len(values.Values) = 2
    /\ Count(SQL, " UNION SELECT ") = 1
    /\ pc = "done"

C7_RecoverySkippedAfterExecError ==
    (execCalls # <<>> /\ ~execCalls[1].result.ok) =>
        /\ "exec" \in Range(Error)
        /\ queryCalls = <<>>
        /\ objects = init.objects

\* C8: the collection recovery binds the k-th returned row to the k-th input
\* object whose default fields are all zero; an object with a non-zero default
\* field is skipped and consumes no row; no object gets two rows and no row
\* two objects; binding stops when the rows or the objects are exhausted.
\* Consequently, when exactly the inserted objects have all-zero defaults and
\* the feed returns their rows in input order, each inserted object receives
\* its own row's values.
QuerySucceeded == queryCalls # <<>> /\ queryCalls[1].ok

ZeroObjects ==
    {j \in 1..Len(init.objects) :
        \A f \in 1..Len(init.objects[j]) : init.objects[j][f] = 0}

KthZero(k) ==
    CHOOSE j \in ZeroObjects : Cardinality({i \in ZeroObjects : i <= j}) = k

FeedLen == fetched + Len(rows)

OwnValues(i) == [f \in 1..Len(init.objects[i]) |-> RowVal(i, f)]

SlicePairing ==
    /\ Len(scanLog) <= Cardinality(ZeroObjects)
    /\ \A k \in 1..Len(scanLog) :
          /\ scanLog[k].row = k
          /\ scanLog[k].obj = KthZero(k)
    /\ \A j \in 1..Len(objects) : j \notin ZeroObjects => objects[j] = init.objects[j]
    /\ \A k, l \in 1..Len(scanLog) :
          (scanLog[k].row = scanLog[l].row \/ scanLog[k].obj = scanLog[l].obj) => k = l
    /\ (pc = "done" /\ QuerySucceeded) =>
          Len(scanLog) = Min({FeedLen, Cardinality(ZeroObjects)})

RECURSIVE QuotedList(_)
QuotedList(names) ==
    IF names = <<>> THEN <<>>
    ELSE QuoteTo(dialector, Head(names))
         \o (IF Len(names) > 1 THEN <<",">> ELSE <<>>)
         \o QuotedList(Tail(names))

RecoveryText ==
    \A i \in 1..Len(queryCalls) :
        queryCalls[i].sql =
            <<"SELECT ">> \o QuotedList(schema.FieldsWithDefaultDBValue)
            \o <<" FROM ">> \o QuoteTo(dialector, schema.Table)
            \o <<" CHANGES(INFORMATION => APPEND_ONLY) BEFORE(statement=>LAST_QUERY_ID());">>

StructRecovered ==
    reflectKind = "struct" /\ pc = "done" /\ QuerySucceeded /\ FeedLen >= 1

FirstRowOnly ==
    /\ fetched = 1
    /\ Len(scanLog) = 1
    /\ scanLog[1].row = 1
    /\ scanLog[1].obj = 1

C10_QueryFailureStops ==
    (queryCalls # <<>> /\ ~queryCalls[1].ok) =>
        /\ "query" \in Range(Error)
        /\ pc = "done"
        /\ fetched = 0
        /\ scanLog = <<>>
        /\ objects = init.objects
        /\ RowsAffected = execCalls[1].result.n

C10_Witness ==
    /\ queryCalls # <<>>
    /\ ~queryCalls[1].ok
    /\ execCalls[1].result.ok
    /\ RowsAffected = 2
    /\ Error = <<"query">>
    /\ pc = "done"

\* C11: in the collection recovery a scan error on one returned row is
\* recorded and does not end the pass: every failed scan leaves one error,
\* the rows after it are still bound to the next insertable objects, and an
\* object bound after a failed scan receives the values of its row.
FailedScans == {k \in 1..Len(scanLog) : ScanFails(scanLog[k].data)}

C11_ScanErrorContinues ==
    reflectKind = "slice" =>
        /\ Count(Error, "scan") = Cardinality(FailedScans)
        /\ (pc = "done" /\ QuerySucceeded) =>
              Len(scanLog) = Min({FeedLen, Cardinality(ZeroObjects)})
        /\ \A k \in FailedScans : \A l \in (k + 1)..Len(scanLog) :
              /\ scanLog[l].row = l
              /\ scanLog[l].obj > scanLog[k].obj
              /\ ~ScanFails(scanLog[l].data) =>
                    objects[scanLog[l].obj] =
                        [f \in 1..Len(schema.FieldsWithDefaultDBValue) |->
                            RowVal(scanLog[l].data.owner, f)]

C11_Witness ==
    /\ reflectKind = "slice"
    /\ pc = "done"
    /\ init.objects = <<<<0, 0>>, <<0, 0>>>>
    /\ inserted = {1, 2}
    /\ Len(scanLog) = 2
    /\ scanLog[1].data.bad = 2
    /\ Error = <<"scan">>
    /\ objects = <<<<RowVal(1, 1), 0>>, <<RowVal(2, 1), RowVal(2, 2)>>>>

\* C12: when the recovery query succeeds but returns no row for an input
\* object that was expected to receive one, a recovery error is recorded,
\* while RowsAffected keeps the value of the primary execution.
ExpectedUnserved ==
    \/ reflectKind = "struct" /\ scanLog = <<>>
    \/ reflectKind = "slice" /\ Len(scanLog) < Cardinality(ZeroObjects)

C12_MissingRowRecorded ==
    (pc = "done" /\ QuerySucceeded /\ execCalls[1].result.ok /\ ExpectedUnserved) =>
        /\ Error # <<>>
        /\ RowsAffected = execCalls[1].result.n

\* C13: in dry-run mode, and when an error is recorded before the execute
\* step, Create only builds: no execute and no query reaches the connection,
\* RowsAffected and the input objects are what they were, and the statement
\* holds the primary statement text and its parameters.
OnlyBuilds == DryRun \/ init.Error # <<>> \/ "ErrEmptySlice" \in Range(Error)

C13_DryRunOnlyBuilds ==
    OnlyBuilds =>
        /\ execCalls = <<>>
        /\ queryCalls = <<>>
        /\ RowsAffected = init.RowsAffected
        /\ objects = init.objects
        /\ pc \in {"start", "built", "done"}
        /\ (pc # "start" /\ init.SQL = <<>>) =>
              /\ IsInsert \/ IsMerge
              /\ SQL[Len(SQL)] = ";"
              /\ Count(SQL, "SELECT ") = 0
              /\ Vars = init.Vars \o RowMajor(values)
        /\ (pc # "start" /\ init.SQL # <<>>) =>
              /\ SQL = init.SQL
              /\ Vars = init.Vars

C13_Witness ==
    /\ DryRun
    /\ init.Error = <<>>
    /\ pc = "done"
    /\ init.SQL = <<>>
    /\ IsMerge
    /\ Len(schema.FieldsWithDefaultDBValue) = 2
    /\ init.RowsAffected = 3
    /\ RowsAffected = 3
    /\ objects = <<<<0, 0>>, <<0, 0>>>>
    /\ Vars = <<11, 12, 11, 12>>

\* C14: the ON predicate of a MERGE holds exactly one equality
\* '<target table>.<key> = EXCLUDED.<key>' per key column of the Conflict
\* Specification, in order, joined by ' AND '; an empty key list gives an
\* empty predicate and no error.
OnPredicate ==
    SubSeq(SQL, IndexOf(SQL, ") ON ") + 1,
           (IF IndexOf(SQL, " WHEN MATCHED THEN UPDATE SET ") > 0
            THEN IndexOf(SQL, " WHEN MATCHED THEN UPDATE SET ")
            ELSE IndexOf(SQL, " WHEN NOT MATCHED THEN INSERT (")) - 1)

RECURSIVE KeyEqualities(_, _)
KeyEqualities(keys, i) ==
    IF i > Len(keys) THEN <<>>
    ELSE (IF i > 1 THEN <<" AND ">> ELSE <<>>)
         \o QuoteTo(dialector, stmtTable) \o <<".">> \o QuoteTo(dialector, keys[i])
         \o <<" = EXCLUDED.">> \o QuoteTo(dialector, keys[i])
         \o KeyEqualities(keys, i + 1)

\* C14 as stated, the key columns being the column list of the Conflict Specification
C14_Original ==
    (pc # "start" /\ IsMerge) =>
        /\ OnPredicate = KeyEqualities(onConflict.Columns, 1)
        /\ Error = init.Error

\* C14 amended: the key columns are the primary-key columns of the schema; the
\* column list of the Conflict Specification is not read.
C14_OnPredicate ==
    (pc # "start" /\ IsMerge) =>
        /\ OnPredicate = KeyEqualities(schema.PrimaryFields, 1)
        /\ Count(OnPredicate, " = EXCLUDED.") = Len(schema.PrimaryFields)
        /\ schema.PrimaryFields = <<>> => OnPredicate = <<>>
        /\ Error = init.Error

C14_Witness ==
    /\ pc = "done" /\ IsMerge
    /\ schema.PrimaryFields = <<nID, nName>>
    /\ onConflict.Columns = <<nID>>
    /\ dialector.QuoteFields
    /\ Count(OnPredicate, " AND ") = 1
    /\ Count(OnPredicate, " = EXCLUDED.") = 2

\* C15: a MERGE holds one parenthesised placeholder tuple per input row, in
\* row order, inside USING (VALUES ...); it appends rows x columns values to
\* the parameter list in row-major order, the values of the identity column
\* included; the i-th placeholder of every tuple belongs to the i-th column
\* name of the 'AS EXCLUDED (...)' list.
UsingTuples ==
    SubSeq(SQL, IndexOf(SQL, " USING (VALUES") + 1, IndexOf(SQL, ") AS EXCLUDED (") - 1)

AliasList ==
    Items(SubSeq(SQL, IndexOf(SQL, ") AS EXCLUDED (") + 1, IndexOf(SQL, ") ON ") - 1))

PlaceholderTuple(nc) ==
    <<"(">> \o [k \in 1..(IF nc = 0 THEN 0 ELSE 2 * nc - 1) |->
                   IF k % 2 = 1 THEN "?" ELSE ","]
            \o <<")">>

RECURSIVE PlaceholderTuples(_, _)
PlaceholderTuples(nr, nc) ==
    IF nr = 0 THEN <<>>
    ELSE PlaceholderTuple(nc) \o (IF nr > 1 THEN <<",">> ELSE <<>>)
         \o PlaceholderTuples(nr - 1, nc)

LitUpdates == {i \in 1..Len(onConflict.DoUpdates) : onConflict.DoUpdates[i].Value.kind = "lit"}

NonIdentityColumns == SelectSeq(values.Columns, LAMBDA c : ~IsIdentity(c))

NoRepeat(list) == \A i, j \in 1..Len(list) : list[i] = list[j] => i = j

C16_ColumnOrder ==
    (pc # "start" /\ IsMerge) =>
        /\ AliasList = [i \in 1..Len(values.Columns) |-> QuoteTo(dialector, values.Columns[i])]
        /\ NotMatchedColumns =
              [i \in 1..Len(NonIdentityColumns) |-> QuoteTo(dialector, NonIdentityColumns[i])]
        /\ NotMatchedValues =
              [i \in 1..Len(NonIdentityColumns) |->
                  <<"EXCLUDED.">> \o QuoteTo(dialector, NonIdentityColumns[i])]
        /\ Len(NotMatchedColumns) = Len(NotMatchedValues)
        /\ NoRepeat(AliasList) /\ NoRepeat(NotMatchedColumns) /\ NoRepeat(NotMatchedValues)

C16_Witness ==
    /\ pc = "done" /\ IsMerge
    /\ values.Columns = <<nAge, nID>>
    /\ IsIdentity(nID)
    /\ ~dialector.QuoteFields
    /\ AliasList = <<nAge, nID>>
    /\ NotMatchedColumns = <<nAge>>
    /\ NotMatchedValues = <<<<"EXCLUDED.">> \o nAge>>

\* C17: prepareOnConflictForMerge leaves unchanged every Update Assignment
\* whose value is not a conflict reference: a literal bound value, a raw SQL
\* expression and a column reference to an ordinary column (a name that
\* neither equals nor begins with the pseudo-table token plus separator) come
\* out with a value identical to the input value.
IsBareToken(v) ==
    /\ v.kind = "col"
    /\ ToLower(v.val) = <<"e","x","c","l","u","d","e","d">>

IsConflictRef(v) ==
    /\ v.kind = "col"
    /\ IsBareToken(v) \/ IsExcludedRef(v)

\* the raw text EXCLUDED.<name>, the name in double quotes when quoting is enabled
ExcludedText(name) ==
    <<"E","X","C","L","U","D","E","D",".">>
    \o (IF dialector.QuoteFields THEN <<"\"">> \o name \o <<"\"">> ELSE name)

\* C17 as stated
C17_Original ==
    (Built /\ IsMerge) =>
        /\ Len(prepared) = Len(onConflict.DoUpdates)
        /\ \A i \in 1..Len(onConflict.DoUpdates) :
              ~IsConflictRef(onConflict.DoUpdates[i].Value) =>
                  prepared[i] = onConflict.DoUpdates[i]

\* C17 amended: literal bound values and raw SQL expressions come out
\* unchanged; a column reference to an ordinary column is replaced by the
\* raw expression EXCLUDED.<name>; the target column never changes.
C17_PassThrough ==
    (Built /\ IsMerge) =>
        /\ Len(prepared) = Len(onConflict.DoUpdates)
        /\ \A i \in 1..Len(onConflict.DoUpdates) :
              LET in == onConflict.DoUpdates[i]
              IN /\ prepared[i].Column = in.Column
                 /\ in.Value.kind \in {"lit", "expr"} => prepared[i] = in
                 /\ (in.Value.kind = "col" /\ ~IsConflictRef(in.Value)) =>
                       /\ prepared[i].Value.kind = "expr"
                       /\ prepared[i].Value.val = ExcludedText(in.Value.val)

C17_Witness ==
    /\ Built /\ IsMerge
    /\ dialector.QuoteFields
    /\ Len(onConflict.DoUpdates) = 2
    /\ onConflict.DoUpdates[1].Value = Lit(7)
    /\ onConflict.DoUpdates[2].Value = Col(nAge)
    /\ prepared[1].Value = Lit(7)
    /\ prepared[2].Value = Expr(<<"E","X","C","L","U","D","E","D",".","\"","a","g","\"">>)
    /\ Vars = <<11, 12, 7>>

\* C18: an Update Assignment value that is a column reference named exactly
\* by the pseudo-table token (any casing, no column suffix) is not specially
\* transformed: it goes to the ordinary quoting path, the emitted UPDATE SET
\* value is the bare token quoted as a normal identifier, and no error is raised.
SetItems ==
    IF IndexOf(SQL, " WHEN MATCHED THEN UPDATE SET ") = 0 THEN <<>>
    ELSE Items(SubSeq(SQL, IndexOf(SQL, " WHEN MATCHED THEN UPDATE SET ") + 1,
                      IndexOf(SQL, " WHEN NOT MATCHED THEN INSERT (") - 1))

RECURSIVE Written(_, _)
Written(calls, k) ==
    IF k > Len(calls) THEN <<>> ELSE calls[k].text \o Written(calls, k + 1)

RECURSIVE QuotedSegments(_, _)
QuotedSegments(segments, i) ==
    IF i > Len(segments) THEN <<>>
    ELSE (IF i > 1 THEN <<".">> ELSE <<>>)
         \o <<"\"">> \o segments[i] \o <<"\"">>
         \o QuotedSegments(segments, i + 1)

IsCallShaped(str) ==
    /\ Len(str) >= 4
    /\ str[Len(str)] = ")"
    /\ Contains(str, "(")
    /\ IndexOf(str, "(") > 1
    /\ \A i \in 1..(IndexOf(str, "(") - 1) : IsNameChar(str[i])

RECURSIVE QuotedRecursively(_)
QuotedRecursively(str) ==
    IF IsCallShaped(str)
    THEN SubSeq(str, 1, IndexOf(str, "("))
         \o QuotedRecursively(SubSeq(str, IndexOf(str, "(") + 1, Len(str) - 1))
         \o <<")">>
    ELSE QuotedSegments(Split(str, "."), 1)

Unquoted(text) == SelectSeq(text, LAMBDA c : c # "\"")

C21_FunctionShaped ==
    dialector.QuoteFields =>
        \A k \in 1..Len(quoteCalls) :
            IsCallShaped(quoteCalls[k].str) =>
                /\ quoteCalls[k].text = QuotedRecursively(quoteCalls[k].str)
                /\ Unquoted(quoteCalls[k].text) = quoteCalls[k].str

\* C22: with quoting enabled, QuoteTo called on a pseudo-table reference
\* '<tok>.<col>' with <tok> = excluded in any casing writes EXCLUDED."<col>",
\* the token in upper case and unquoted and only the column quoted, while an
\* ordinary 'table.column' is written "table"."column".
C22_QuoteToExcludedReference ==
    dialector.QuoteFields =>
        \A k \in 1..Len(quoteCalls) :
            LET str == quoteCalls[k].str
            IN (~IsFunction(str) /\ Len(Split(str, ".")) = 2) =>
                  quoteCalls[k].text =
                      IF ToLower(Split(str, ".")[1]) = <<"e","x","c","l","u","d","e","d">>
                      THEN <<"E","X","C","L","U","D","E","D",".">>
                           \o <<"\"">> \o Split(str, ".")[2] \o <<"\"">>
                      ELSE <<"\"">> \o Split(str, ".")[1] \o <<"\"", ".", "\"">>
                           \o Split(str, ".")[2] \o <<"\"">>

\* C23: UseUnionSelect defaults to true: whenever the caller has not set the
\* flag to false, shouldUseUnionSelect returns true and the insert has the
\* UNION SELECT form, for a dialector built by Open(dsn), for one built by
\* New(Config{...}) with the field left out and for a dialector that is not
\* the Snowflake dialector; only an explicit false gives the VALUES form.
C23_UnionSelectByDefault ==
    (Built /\ IsInsert) =>
        /\ made.flag # "false" =>
              /\ shouldUseUnionSelect(dialector)
              /\ Count(SQL, ") SELECT ") = 1
              /\ Count(SQL, " VALUES ") = 0
        /\ made.flag = "false" =>
              /\ ~shouldUseUnionSelect(dialector)
              /\ Count(SQL, ") SELECT ") = 0
              /\ Count(SQL, " VALUES ") = 1

\* C24: under any error number, Translate gives nil for nil; an error that is not and does not wrap a
\* Snowflake error, or a Snowflake error whose message matches no pattern, is
\* returned as the same error; a Snowflake error whose lower-cased message
\* contains 'duplicate' or 'unique' gives ErrDuplicatedKey, else 'foreign key'
\* gives ErrForeignKeyViolated, else 'check constraint' gives
\* ErrCheckConstraintViolated, else 'invalid' with 'value' or 'data' gives
\* ErrInvalidData; the earliest pattern wins and the error number plays no role.
IsSnowflakeError(err) ==
    \/ err.kind = "snowflake"
    \/ err.kind = "wrapped" /\ err.inner.kind = "snowflake"

MessageOf(err) == IF err.kind = "snowflake" THEN err.Message ELSE err.inner.Message

Mentions(err, word) ==
    LET m == MessageOf(err)
    IN \E i \in 0..(Len(m) - Len(word)) :
          \A k \in 1..Len(word) : ToLowerChar(m[i + k]) = word[k]

PatternOf(err) ==
    CASE Mentions(err, sDuplicate) \/ Mentions(err, sUnique) -> 1
      [] Mentions(err, sForeignKey) -> 2
      [] Mentions(err, sCheckConstraint) -> 3
      [] Mentions(err, sInvalid) /\ (Mentions(err, sValue) \/ Mentions(err, sData)) -> 4
      [] OTHER -> 0

GormErrors ==
    <<ErrDuplicatedKey, ErrForeignKeyViolated, ErrCheckConstraintViolated, ErrInvalidData>>

C24_Translate ==
    \A k \in 1..Len(translateCalls) :
        LET err == translateCalls[k].err
            out == translateCalls[k].out
        IN /\ err = NilError => out = NilError
           /\ (err # NilError /\ ~IsSnowflakeError(err)) => out = err
           /\ (IsSnowflakeError(err) /\ PatternOf(err) = 0) => out = err
           /\ (IsSnowflakeError(err) /\ PatternOf(err) > 0) => out = GormErrors[PatternOf(err)]

\* a wrapped Snowflake error whose message matches the first and the second
\* pattern was translated, and so was the same message under another number
C24_Witness ==
    \E k \in 1..Len(translateCalls) : \E j \in 1..Len(translateCalls) :
        LET err == translateCalls[k].err
            other == translateCalls[j].err
        IN /\ err.kind = "wrapped" /\ IsSnowflakeError(err)
           /\ Mentions(err, sUnique) /\ Mentions(err, sForeignKey)
           /\ translateCalls[k].out = ErrDuplicatedKey
           /\ other.kind = "snowflake" /\ other.Number = 999999
           /\ other.Message = MessageOf(err)
           /\ translateCalls[j].out = ErrDuplicatedKey

\* C25: in every invocation of Create the connection sees at most one execute
\* call and at most one query call, and no other call; a query call happens
\* only after the execute call of the invocation has returned, and only if
\* the schema declares at least one server-defaulted column.
C25_OneExecuteOneQuery ==
    /\ [](/\ Len(execCalls) <= 1
          /\ Len(queryCalls) <= 1
          /\ queryCalls # <<>> =>
                /\ Len(execCalls) = 1
                /\ Len(schema.FieldsWithDefaultDBValue) > 0)
    /\ [][queryCalls' # queryCalls =>
             /\ Len(execCalls) = 1
             /\ execCalls' = execCalls
             /\ pc = "executed"]_vars

\* an invocation that ended after one execute call and one query call
C25_Witness ==
    /\ pc = "done"
    /\ Len(execCalls) = 1
    /\ Len(queryCalls) = 1
    /\ Len(schema.FieldsWithDefaultDBValue) > 0

\* C27: the recovery query, whose text has no placeholder, is sent to the
\* connection with an empty list of bound parameters: none of the values
\* bound for the primary statement are passed along with it.
C27_RecoveryQueryUnbound ==
    \A k \in 1..Len(queryCalls) :
        /\ Count(queryCalls[k].sql, "?") = 0
        /\ queryCalls[k].vars = <<>>

\* C26: for every Row-Set with at least one column and at least one row, the
\* statement built in union mode and the statement built in plain mode insert
\* the same multiset of rows, one inserted row per input row, also when two
\* input rows carry the same values.  The rows a statement inserts are read
\* from its text and its bound values: the plain form inserts every tuple,
\* and SELECT ... UNION SELECT ... yields each distinct row once.
StatementVars == SubSeq(Vars, Len(init.Vars) + 1, Len(Vars))

UnionRowTexts ==
    Split(SubSeq(SQL, IndexOf(SQL, ") SELECT ") + 1, Len(SQL) - 1), " UNION SELECT ")

PlainRowTexts ==
    LET parts == Split(SubSeq(SQL, IndexOf(SQL, " VALUES ") + 1, Len(SQL) - 1), ")")
    IN SubSeq(parts, 1, Len(parts) - 1)

RECURSIVE BindRows(_, _)
BindRows(texts, bound) ==
    IF texts = <<>> THEN <<>>
    ELSE LET n == Count(Head(texts), "?")
         IN <<SubSeq(bound, 1, n)>> \o BindRows(Tail(texts), SubSeq(bound, n + 1, Len(bound)))

RECURSIVE Distinct(_)
Distinct(seq) ==
    IF seq = <<>> THEN <<>>
    ELSE LET front == Distinct(SubSeq(seq, 1, Len(seq) - 1))
             last == seq[Len(seq)]
         IN IF \E i \in 1..Len(front) : front[i] = last THEN front ELSE Append(front, last)

InsertedRows ==
    IF Count(SQL, ") SELECT ") = 1
    THEN Distinct(BindRows(UnionRowTexts, StatementVars))
    ELSE BindRows(PlainRowTexts, StatementVars)

Multiplicity(seq, r) == Cardinality({i \in 1..Len(seq) : seq[i] = r})

C26_SameRowsInserted ==
    (Built /\ IsInsert /\ Len(values.Columns) >= 1 /\ Len(values.Values) >= 1) =>
        \A r \in Range(values.Values) \cup Range(InsertedRows) :
            Multiplicity(InsertedRows, r) = Multiplicity(values.Values, r)

\* C28: in every invocation of Create, the table the recovery query reads is
\* the table the primary INSERT/MERGE statement wrote to, also when the
\* statement's target table is not the schema's table.
PrimaryTable(sql) ==
    IF sql[1] = "INSERT INTO "
    THEN SubSeq(sql, 2, IndexOf(sql, " ") - 1)
    ELSE SubSeq(sql, 2, IndexOf(sql, " USING (VALUES") - 1)

RecoveryTable(sql) ==
    SubSeq(sql, IndexOf(sql, " FROM ") + 1,
           IndexOf(sql, " CHANGES(INFORMATION => APPEND_ONLY) BEFORE(statement=>LAST_QUERY_ID());") - 1)

C28_RecoveryReadsWrittenTable ==
    init.SQL = <<>> =>
        \A k \in 1..Len(queryCalls) :
            RecoveryTable(queryCalls[k].sql) = PrimaryTable(execCalls[k].sql)

\* C29: prepareOnConflictForMerge does not modify the caller's assignment list
\* and is idempotent: the returned list has the length and, in the same
\* order, the target columns of the input, the caller's list stays as it was,
\* and the function applied to its own output returns that output unchanged.
C29_PrepareIdempotent ==
    /\ []((pc # "start" /\ IsMerge) =>
             /\ Len(prepared) = Len(onConflict.DoUpdates)
             /\ \A i \in 1..Len(prepared) :
                   prepared[i].Column = onConflict.DoUpdates[i].Column
             /\ prepareOnConflictForMerge(dialector, prepared) = prepared)
    /\ [][onConflict' = onConflict]_vars

\* a list of two assignments, one a column reference that was rewritten under
\* quoting and one a bound value
C29_Witness ==
    /\ pc # "start" /\ IsMerge
    /\ dialector.QuoteFields
    /\ Len(prepared) >= 2
    /\ \E i \in 1..Len(prepared) :
          /\ onConflict.DoUpdates[i].Value.kind = "col"
          /\ prepared[i] # onConflict.DoUpdates[i]
    /\ \E i \in 1..Len(prepared) : onConflict.DoUpdates[i].Value.kind = "lit"

\* C30: for every integer offset and every non-negative limit, the text the
\* LIMIT builder writes ends with 'FETCH NEXT <limit> ROWS ONLY' directly
\* after an OFFSET clause ('OFFSET <offset> ROWS' when offset > 0,
\* 'OFFSET 0 ROW' otherwise), so FETCH NEXT never comes without an OFFSET
\* clause before it; and an ORDER BY (on the prioritized primary key, or
\* '(SELECT NULL)' when there is none) is written first exactly when the
\* statement has no ORDER BY clause.
RECURSIVE NumberOf(_)
NumberOf(chars) ==
    IF chars = <<>> THEN 0
    ELSE 10 * NumberOf(SubSeq(chars, 1, Len(chars) - 1))
         + (CHOOSE v \in 0..9 : DigitChars[v + 1] = chars[Len(chars)])

IsNumber(chars) == chars # <<>> /\ \A i \in 1..Len(chars) : chars[i] \in Range(DigitChars)

OrderByText ==
    IF schema.PrioritizedPrimaryField.present
    THEN <<"ORDER BY ">> \o QuoteTo(dialector, schema.PrioritizedPrimaryField.DBName)
                        \o <<" ">>
    ELSE <<"ORDER BY (SELECT NULL) ">>

EndsWithOffset(text, offset) ==
    IF offset > 0
    THEN \E o \in 1..Len(text) :
            /\ text[o] = "OFFSET "
            /\ text[Len(text)] = " ROWS"
            /\ IsNumber(SubSeq(text, o + 1, Len(text) - 1))
            /\ NumberOf(SubSeq(text, o + 1, Len(text) - 1)) = offset
    ELSE text # <<>> /\ text[Len(text)] = "OFFSET 0 ROW"

C30_FetchAfterOffset ==
    \A k \in 1..Len(limitCalls) :
        LET call == limitCalls[k]
            text == call.text
            f == IndexOf(text, " FETCH NEXT ")
            order == IF call.hasOrderBy THEN <<>> ELSE OrderByText
        IN /\ SubSeq(text, 1, Len(order)) = order
           /\ Count(text, "ORDER BY ") + Count(text, "ORDER BY (SELECT NULL) ")
                 = IF call.hasOrderBy THEN 0 ELSE 1
           /\ (call.limit.Limit.set /\ call.limit.Limit.n >= 0) =>
                 /\ f > 0
                 /\ text[Len(text)] = " ROWS ONLY"
                 /\ IsNumber(SubSeq(text, f + 1, Len(text) - 1))
                 /\ NumberOf(SubSeq(text, f + 1, Len(text) - 1)) = call.limit.Limit.n
                 /\ EndsWithOffset(SubSeq(text, Len(order) + 1, f - 1), call.limit.Offset)

====
